---- MODULE Spec2Model ----
(***************************************************************************)
(* Model of mathscript's symbol table (src/mathscript/symtable.cpp): a     *)
(* chain of SymTable nodes holding variables and functions, variable       *)
(* lookup and assignment, and function dispatch with per-call frames.      *)
(***************************************************************************)
EXTENDS Integers, Sequences, FiniteSets, TLC

\* ---------------------------------------------------------------- bounds
MaxFrames == 2          \* heap capacity: SymTable nodes besides the global one
MaxOps    == 3          \* AssignVariable / CreateFunction calls in one run

VarNames   == {"x", "y"}
FuncNames  == {"f", "g"}
NativeNames == {"f"}    \* names the host may register as natives
Values     == {1, 2}
ParamLists == {<<"x", "y">>, <<"y", "y">>}
Statements == {"body"}
\* argument vectors passed to calls: fewer, as many and more than the
\* parameters of the lists above
ArgLists   == {<<>>, <<1>>, <<1, 2>>, <<2, 1>>, <<2, 1, 2>>}
\* value vectors a body evaluates to
EvalLists  == {<<>>, <<2>>, <<1, 2>>, <<2, 2, 1>>}

\* ------------------------------------------------------------- addresses
Null   == -1            \* nullptr
Global == 0             \* the node made by ConstructGlobalTable
Frames == 1..MaxFrames  \* addresses `new SymTable` can return
Nodes  == {Global} \cup Frames

EmptyMap == <<>>

VARIABLES
    alloc,      \* set of SymTable nodes currently allocated
    parent,     \* parent[n]   : SymTable::parent
    variables,  \* variables[n]: SymTable::variables, a map name -> value
    functions,  \* functions[n]: SymTable::functions, a map name -> variant
    stack,      \* frames of the in-flight user calls, innermost last
    nops,       \* number of AssignVariable / CreateFunction calls so far
    last        \* the most recent operation and its outcome

vars == <<alloc, parent, variables, functions, stack, nops, last>>

\* ------------------------------------------------------------ map helpers
Contains(m, k) == k \in DOMAIN m

Put(m, k, v) == [n \in (DOMAIN m) \cup {k} |-> IF n = k THEN v ELSE m[n]]

\* variant<Function, FunctionDef>: index 0 is a native, index 1 a FunctionDef
NativeFn(name) == [index |-> 0, params |-> <<>>, statements |-> name]
FunctionDef(statements, params) ==
    [index |-> 1, params |-> params, statements |-> statements]

\* --------------------------------------------------------------- outcomes
\* op/env/name: the call made and the node it was made on; kind/val: how it
\* ended; def/frame: the node whose function entry was used and the frame
\* made for the call; args: the argument vector once the call has found a
\* callable to hand it to (for a body, the values it evaluated to).
Outcome(op, env, name, kind, val, def, frame, args) ==
    [op |-> op, env |-> env, name |-> name, kind |-> kind, val |-> val,
     def |-> def, frame |-> frame, args |-> args]

\* A run is followed up to its first error, lookup or native call.  An error
\* is thrown past this code to the top-level driver and a lookup that never
\* ends never returns; a lookup that returns and a native call leave every
\* node as it was, so the states that follow them are those that follow the
\* state they were made in.
Running == last.kind \in {"ok", "call", "single"}

\* the environment the evaluator is working in
cur == IF stack = <<>> THEN Global ELSE stack[Len(stack)]

\* -------------------------------------------------------- variable lookup
\* The loop of FindVariable.  `seen` holds the loop states already visited:
\* the loop has no side effect, so revisiting a node means it never ends.
RECURSIVE FindVariableLoop(_, _, _, _, _, _)
FindVariableLoop(vs, par, this, node, name, seen) ==
    IF node = Null THEN [kind |-> "UndeclaredVariableError", val |-> 0]
    ELSE IF Contains(vs[node], name)
         THEN [kind |-> "value", val |-> vs[node][name]]
         ELSE LET next == par[this]
              IN  IF next \in seen THEN [kind |-> "diverges", val |-> 0]
                  ELSE FindVariableLoop(vs, par, this, next, name,
                                        seen \cup {next})

FindVariableIn(vs, par, this, name) ==
    FindVariableLoop(vs, par, this, this, name, {this})

RECURSIVE RecFindVariableIn(_, _, _, _)
RecFindVariableIn(vs, par, node, name) ==
    IF Contains(vs[node], name)
    THEN [kind |-> "value", val |-> vs[node][name]]
    ELSE IF par[node] = Null
         THEN [kind |-> "UndeclaredVariableError", val |-> 0]
         ELSE RecFindVariableIn(vs, par, par[node], name)

\* --------------------------------------------------------------- dispatch
IsGlobal(par, node) == par[node] = Null

\* a test that takes every entry for a user function
IsBuiltin_never(func) == FALSE

\* func.index() == 0
IsBuiltin(func) == func.index = 0

\* the step FindVariable takes: always back to the caller's parent
NextNode_this(par, this, node) == par[this]

NextNode(par, this, node) == par[node]

\* the scan without the throw at the global node
RECURSIVE ExecuteFunctionLoop_noThrow(_, _, _, _, _, _)
ExecuteFunctionLoop_noThrow(fs, par, this, node, name, seen) ==
    IF node = Null THEN [kind |-> "unreachable", node |-> Null]
    ELSE IF IsGlobal(par, node) /\ Contains(fs[node], name)
                                /\ IsBuiltin(fs[node][name])
         THEN [kind |-> "native", node |-> node]
    ELSE IF Contains(fs[node], name)
         THEN IF IsBuiltin(fs[node][name])
              THEN [kind |-> "bad_variant_access", node |-> node]
              ELSE [kind |-> "user", node |-> node]
    ELSE ExecuteFunctionLoop_noThrow(fs, par, this, par[node], name, seen)

\* The scan of ExecuteFunction: which callable `name` resolves to from `this`.
RECURSIVE ExecuteFunctionLoop(_, _, _, _, _, _)
ExecuteFunctionLoop(fs, par, this, node, name, seen) ==
    IF node = Null THEN [kind |-> "unreachable", node |-> Null]
    ELSE IF IsGlobal(par, node) /\ ~Contains(fs[node], name)
         THEN [kind |-> "undefined", node |-> node]
    ELSE IF IsGlobal(par, node) /\ IsBuiltin(fs[node][name])
         THEN [kind |-> "native", node |-> node]
    ELSE IF Contains(fs[node], name)
         THEN IF IsBuiltin(fs[node][name])
              THEN [kind |-> "bad_variant_access", node |-> node]
              ELSE [kind |-> "user", node |-> node]
    ELSE LET next == NextNode(par, this, node)
         IN  IF next \in seen THEN [kind |-> "diverges", node |-> node]
             ELSE ExecuteFunctionLoop(fs, par, this, next, name,
                                      seen \cup {next})

\* a scan in which the outermost registration wins
RECURSIVE RecExecuteFunctionScan_rootFirst(_, _, _, _)
RecExecuteFunctionScan_rootFirst(fs, par, node, name) ==
    IF IsGlobal(par, node)
    THEN IF ~Contains(fs[node], name)
         THEN [kind |-> "undefined", node |-> node]
         ELSE IF IsBuiltin(fs[node][name])
              THEN [kind |-> "native", node |-> node]
              ELSE [kind |-> "user", node |-> node]
    ELSE LET up == RecExecuteFunctionScan_rootFirst(fs, par, par[node], name)
         IN  IF up.kind # "undefined" THEN up
             ELSE IF Contains(fs[node], name)
                  THEN [kind |-> "user", node |-> node]
                  ELSE up

\* The same scan as RecExecuteFunction performs it.
RECURSIVE RecExecuteFunctionScan(_, _, _, _)
RecExecuteFunctionScan(fs, par, node, name) ==
    IF IsGlobal(par, node) /\ ~Contains(fs[node], name)
    THEN [kind |-> "undefined", node |-> node]
    ELSE IF IsGlobal(par, node) /\ IsBuiltin(fs[node][name])
         THEN [kind |-> "native", node |-> node]
    ELSE IF Contains(fs[node], name)
         THEN IF IsBuiltin(fs[node][name])
              THEN [kind |-> "bad_variant_access", node |-> node]
              ELSE [kind |-> "user", node |-> node]
    ELSE RecExecuteFunctionScan(fs, par, par[node], name)

\* `new SymTable`: the lowest free address
FreeFrames == Frames \ alloc
NewSymTable == CHOOSE a \in FreeFrames : \A b \in FreeFrames : a <= b

\* the frame hung under the node that declares the function
FrameParent_decl(this, node) == node

\* a frame left without a parent
FrameParent_none(this, node) == Null

\* newNode->parent = this
FrameParent(this, node) == this

\* the arguments loaded into the table the call is made on
BindTarget_site(this, newNode) == this

\* newNode->variables[...] = args[i]: the table the arguments are loaded into
BindTarget(this, newNode) == newNode

\* a check that only rejects missing arguments
ArityMismatch_fewer(func, args) == Len(func.params) > Len(args)

\* func.params.size() != args.size()
ArityMismatch(func, args) == Len(func.params) # Len(args)

\* the arguments taken from the far end: params[i] gets args[n + 1 - i]
RECURSIVE LoadVariables_reversed(_, _, _, _)
LoadVariables_reversed(m, params, args, i) ==
    IF i > Len(params) THEN m
    ELSE LoadVariables_reversed(
             Put(m, params[i], args[Len(args) + 1 - i]), params, args, i + 1)

\* an insert that keeps the binding a name already has
RECURSIVE LoadVariables_keepFirst(_, _, _, _)
LoadVariables_keepFirst(m, params, args, i) ==
    IF i > Len(params) THEN m
    ELSE LoadVariables_keepFirst(
             IF Contains(m, params[i]) THEN m ELSE Put(m, params[i], args[i]),
             params, args, i + 1)

\* the loop that loads the arguments into the new table
RECURSIVE LoadVariables(_, _, _, _)
LoadVariables(m, params, args, i) ==
    IF i > Len(params) THEN m
    ELSE LoadVariables(Put(m, params[i], args[i]), params, args, i + 1)

\* eval.empty()
EvalEmpty(eval) == Len(eval) = 0

\* the first value instead of the last
LastOutput_first(eval) == eval[1]

\* eval[eval.size() - 1]
LastOutput(eval) == eval[Len(eval)]

\* the result taken without looking whether there is one
BodyResult_unchecked(eval) ==
    [kind |-> "single", val |-> IF eval = <<>> THEN 0 ELSE eval[Len(eval)]]

\* what the call makes of the values the body evaluated to
BodyResult(eval) ==
    IF EvalEmpty(eval)
    THEN [kind |-> "EvaluationError: nothing returned", val |-> 0]
    ELSE [kind |-> "single", val |-> LastOutput(eval)]

\* `delete this` in place of `delete newNode`
Deleted_this(this, newNode) == this

\* delete newNode: the table the call releases
Deleted(this, newNode) == newNode

\* an exception leaves every in-flight call; nothing on the way catches it
Unwind == <<>>

\* ------------------------------------------------------------------- Init
Init ==
    /\ alloc = {Global}
    /\ parent = [n \in Nodes |-> Null]
    /\ variables = [n \in Nodes |-> EmptyMap]
    /\ \E natives \in SUBSET NativeNames :
         functions = [n \in Nodes |->
                        IF n = Global
                        THEN [f \in natives |-> NativeFn(f)]
                        ELSE EmptyMap]
    /\ stack = <<>>
    /\ nops = 0
    /\ last = Outcome("ConstructGlobalTable", Global, "", "ok", 0, Null, Null, <<>>)

\* ---------------------------------------------------------------- actions
\* the other assignment policy: overwrite the nearest existing binding
RECURSIVE NearestBinder(_, _, _)
NearestBinder(node, name, dflt) ==
    IF node = Null THEN dflt
    ELSE IF Contains(variables[node], name) THEN node
    ELSE NearestBinder(parent[node], name, dflt)

AssignVariable_outward(name, obj) ==
    /\ Running
    /\ nops < MaxOps
    /\ variables' = [variables EXCEPT
                       ![NearestBinder(cur, name, cur)] = Put(@, name, obj)]
    /\ nops' = nops + 1
    /\ last' = Outcome("AssignVariable", cur, name, "ok", obj, Null, Null, <<>>)
    /\ UNCHANGED <<alloc, parent, functions, stack>>

AssignVariable(name, obj) ==
    /\ Running
    /\ nops < MaxOps
    /\ variables' = [variables EXCEPT ![cur] = Put(@, name, obj)]
    /\ nops' = nops + 1
    /\ last' = Outcome("AssignVariable", cur, name, "ok", obj, Null, Null, <<>>)
    /\ UNCHANGED <<alloc, parent, functions, stack>>

\* a registration that keeps an entry already there (map insert semantics)
CreateFunction_insert(name, params, statements) ==
    /\ Running
    /\ nops < MaxOps
    /\ functions' = [functions EXCEPT
                       ![cur] = IF Contains(@, name) THEN @
                                ELSE Put(@, name,
                                         FunctionDef(statements, params))]
    /\ nops' = nops + 1
    /\ last' = Outcome("CreateFunction", cur, name, "ok", 0, Null, Null, params)
    /\ UNCHANGED <<alloc, parent, variables, stack>>

CreateFunction(name, params, statements) ==
    /\ Running
    /\ nops < MaxOps
    /\ functions' = [functions EXCEPT
                       ![cur] = Put(@, name, FunctionDef(statements, params))]
    /\ nops' = nops + 1
    /\ last' = Outcome("CreateFunction", cur, name, "ok", 0, Null, Null, params)
    /\ UNCHANGED <<alloc, parent, variables, stack>>

\* what a lookup that ended with r leaves behind
Lookup(op, name, r) ==
    /\ last' = Outcome(op, cur, name, r.kind, r.val, Null, Null, <<>>)
    /\ stack' = IF r.kind = "value" THEN stack ELSE Unwind
    /\ UNCHANGED <<alloc, parent, variables, functions, nops>>

FindVariable(name) ==
    /\ Running
    /\ Lookup("FindVariable", name,
              FindVariableIn(variables, parent, cur, name))

RecFindVariable(name) ==
    /\ Running
    /\ Lookup("RecFindVariable", name,
              RecFindVariableIn(variables, parent, cur, name))

\* ExecuteFunction / RecExecuteFunction up to the point where the body
\* starts to be evaluated (or the call has ended without evaluating one).
Dispatch(op, name, args, r) ==
    /\ LET this == cur
       IN
       CASE r.kind = "native" ->
              /\ last' = Outcome(op, this, name, "native", 0, r.node, Null, args)
              /\ UNCHANGED <<alloc, parent, variables, functions, stack, nops>>
         [] r.kind = "undefined" ->
              /\ last' = Outcome(op, this, name, "EvaluationError: not defined",
                                 0, Null, Null, <<>>)
              /\ stack' = Unwind
              /\ UNCHANGED <<alloc, parent, variables, functions, nops>>
         [] r.kind = "user" ->
              /\ FreeFrames # {}
              /\ LET func    == functions[r.node][name]
                     newNode == NewSymTable
                 IN  /\ alloc' = alloc \cup {newNode}
                     /\ parent' = [parent EXCEPT
                                     ![newNode] = FrameParent(this, r.node)]
                     /\ IF ArityMismatch(func, args)
                        THEN /\ last' = Outcome(op, this, name,
                                          "EvaluationError: arguments",
                                          0, r.node, newNode, args)
                             /\ stack' = Unwind
                             /\ UNCHANGED variables
                        ELSE /\ variables' = [variables EXCEPT
                                   ![BindTarget(this, newNode)] =
                                     LoadVariables(@, func.params, args, 1)]
                             /\ stack' = Append(stack, newNode)
                             /\ last' = Outcome(op, this, name, "call",
                                                0, r.node, newNode, args)
                     /\ UNCHANGED <<functions, nops>>
         [] OTHER ->
              /\ last' = Outcome(op, this, name, r.kind, 0, Null, Null, args)
              /\ stack' = Unwind
              /\ UNCHANGED <<alloc, parent, variables, functions, nops>>

ExecuteFunction(name, args) ==
    /\ Running
    /\ Dispatch("ExecuteFunction", name, args,
                ExecuteFunctionLoop(functions, parent, cur, cur, name, {cur}))

RecExecuteFunction(name, args) ==
    /\ Running
    /\ Dispatch("RecExecuteFunction", name, args,
                RecExecuteFunctionScan(functions, parent, cur, name))

\* The body of the innermost call has been evaluated to `eval`; the rest of
\* ExecuteFunction / RecExecuteFunction runs.
ReturnFromBody(eval) ==
    /\ Running
    /\ stack # <<>>
    /\ LET newNode == stack[Len(stack)]
           this    == parent[newNode]
           r       == BodyResult(eval)
       IN  /\ last' = Outcome("return", this, "", r.kind, r.val,
                              Null, newNode, eval)
           /\ IF r.kind = "single"
              THEN LET gone == Deleted(this, newNode)
                   IN  /\ alloc' = alloc \ {gone}
                       /\ parent' = [parent EXCEPT ![gone] = Null]
                       /\ variables' = [variables EXCEPT ![gone] = EmptyMap]
                       /\ functions' = [functions EXCEPT ![gone] = EmptyMap]
                   /\ stack' = SubSeq(stack, 1, Len(stack) - 1)
              ELSE /\ stack' = Unwind
                   /\ UNCHANGED <<alloc, parent, variables, functions>>
    /\ UNCHANGED nops

Next ==
    \/ \E name \in VarNames, obj \in Values : AssignVariable(name, obj)
    \/ \E name \in FuncNames, params \in ParamLists, st \in Statements :
         CreateFunction(name, params, st)
    \/ \E name \in VarNames : FindVariable(name)
    \/ \E name \in VarNames : RecFindVariable(name)
    \/ \E name \in FuncNames, args \in ArgLists : ExecuteFunction(name, args)
    \/ \E name \in FuncNames, args \in ArgLists : RecExecuteFunction(name, args)
    \/ \E eval \in EvalLists : ReturnFromBody(eval)

Spec == Init /\ [][Next]_vars

TypeOK ==
    /\ alloc \subseteq Nodes
    /\ Global \in alloc
    /\ nops \in 0..MaxOps

\* ------------------------------------------------------------ properties
\* the nodes from `node` to the root, nearest first
RECURSIVE Chain(_, _)
Chain(par, node) ==
    IF node = Null THEN <<>> ELSE <<node>> \o Chain(par, par[node])

Ancestors(par, node) == {Chain(par, node)[i] : i \in 2..Len(Chain(par, node))}

\* positions on the chain of `node` whose map m binds `name`
Binders(m, par, node, name) ==
    {i \in 1..Len(Chain(par, node)) : Contains(m[Chain(par, node)[i]], name)}

Nearest(m, par, node, name) ==
    Chain(par, node)[CHOOSE i \in Binders(m, par, node, name) :
                        \A j \in Binders(m, par, node, name) : i <= j]

\* C1: whenever FindVariable(name) is called on a node whose chain binds name
\* somewhere, it returns the value bound in the nearest such node.
C1_FindVariableNearest ==
    (last.op = "FindVariable"
       /\ Binders(variables, parent, last.env, last.name) # {})
    => /\ last.kind = "value"
       /\ last.val = variables[Nearest(variables, parent, last.env,
                                       last.name)][last.name]

\* C2: whenever FindVariable(name) is called on a node whose chain binds name
\* nowhere, it ends and fails with UndeclaredVariableError.
C2_FindVariableUndeclared ==
    (last.op = "FindVariable"
       /\ Binders(variables, parent, last.env, last.name) = {})
    => last.kind = "UndeclaredVariableError"

\* C3: AssignVariable(name, v) on node E binds name to v in E, leaves E's
\* other names and every other node's variables as they were, so that a
\* lookup from E gives v and a lookup from an ancestor that binds name still
\* gives the ancestor's value.
C3_AssignLocalOnly ==
    [][last'.op = "AssignVariable" =>
         LET E == cur
             n == last'.name
             v == last'.val
         IN  /\ last'.env = E
             /\ DOMAIN variables'[E] = (DOMAIN variables[E]) \cup {n}
             /\ variables'[E][n] = v
             /\ \A m \in (DOMAIN variables[E]) \ {n} :
                  variables'[E][m] = variables[E][m]
             /\ \A a \in Nodes \ {E} : variables'[a] = variables[a]
             /\ FindVariableIn(variables', parent', E, n)
                  = [kind |-> "value", val |-> v]
             /\ \A a \in Ancestors(parent, E) :
                  Contains(variables[a], n) =>
                    FindVariableIn(variables', parent', a, n)
                      = [kind |-> "value", val |-> variables[a][n]]
    ]_vars

\* an assignment was made in a frame while an ancestor binds the same name
\* to another value
C3_Witness ==
    /\ last.op = "AssignVariable"
    /\ \E a \in Ancestors(parent, last.env) :
         /\ Contains(variables[a], last.name)
         /\ variables[a][last.name] # last.val

DispatchOps == {"ExecuteFunction", "RecExecuteFunction"}

Range(q) == {q[i] : i \in 1..Len(q)}

\* the nearest node on the chain of `node` that registers `name`
NearestFn(node, name) == Nearest(functions, parent, node, name)

Registered(node, name) == Binders(functions, parent, node, name) # {}

ResolvesToUser(node, name) ==
    /\ Registered(node, name)
    /\ functions[NearestFn(node, name)][name].index = 1

\* C4: a call that resolves to a user function starts the body only when it
\* passes as many arguments as the function has parameters; with fewer or
\* more it fails with EvaluationError, the body is not started and the frame
\* has no binding.
C4_ArityChecked ==
    (last.op \in DispatchOps /\ ResolvesToUser(last.env, last.name)) =>
        LET func == functions[NearestFn(last.env, last.name)][last.name]
        IN  IF Len(last.args) = Len(func.params)
            THEN last.kind = "call"
            ELSE /\ last.kind = "EvaluationError: arguments"
                 /\ last.frame \notin Range(stack)
                 /\ last.frame \in Frames => variables[last.frame] = EmptyMap

\* a call with more arguments than parameters has been rejected
C4_Witness ==
    /\ last.kind = "EvaluationError: arguments"
    /\ Len(last.args) > Len(functions[last.def][last.name].params)

\* C5: when the body evaluates to one or more values the call returns a
\* single-value Result holding the last of them.
C5_ReturnsLastValue ==
    (last.op = "return" /\ Len(last.args) >= 1) =>
        /\ last.kind = "single"
        /\ last.val = last.args[Len(last.args)]

\* a body evaluated to several values whose first and last differ
C5_Witness ==
    /\ last.op = "return"
    /\ last.kind = "single"
    /\ Len(last.args) >= 2
    /\ last.args[1] # last.args[Len(last.args)]

\* C6: when the body evaluates to no value the call fails with
\* EvaluationError and returns no Result.
C6_EmptyBodyFails ==
    (last.op = "return" /\ Len(last.args) = 0) =>
        last.kind = "EvaluationError: nothing returned"

\* a body evaluated to no value
C6_Witness ==
    /\ last.op = "return"
    /\ last.args = <<>>
    /\ last.kind = "EvaluationError: nothing returned"

\* C7: the frame of a user call has the node the call was made on as its
\* parent, wherever the function was declared, so the body sees through the
\* frame every variable of the call site that the frame does not rebind.
C7_FrameParentIsCallSite ==
    /\ \A i \in 1..Len(stack) :
         parent[stack[i]] = IF i = 1 THEN Global ELSE stack[i - 1]
    /\ last.kind = "call" =>
         /\ parent[last.frame] = last.env
         /\ \A v \in (DOMAIN variables[last.env]) \ DOMAIN variables[last.frame] :
              FindVariableIn(variables, parent, last.frame, v)
                = [kind |-> "value", val |-> variables[last.env][v]]

\* a function declared in a strict ancestor was called from a node that
\* binds a variable which neither the declaring node nor the frame binds
C7_Witness ==
    /\ last.kind = "call"
    /\ last.def # last.env
    /\ \E v \in DOMAIN variables[last.env] :
         /\ v \notin DOMAIN variables[last.def]
         /\ v \notin DOMAIN variables[last.frame]

\* C8: a call resolves to the user function registered in the nearest node
\* of the chain; the native registered in the global node is invoked, with
\* no frame made, exactly when the nearest registration is that native.
C8_NearestCallable ==
    last.op \in DispatchOps =>
        /\ ResolvesToUser(last.env, last.name) =>
             /\ last.kind \in {"call", "EvaluationError: arguments"}
             /\ last.def = NearestFn(last.env, last.name)
        /\ last.kind = "native" <=>
             /\ Registered(last.env, last.name)
             /\ NearestFn(last.env, last.name) = Global
             /\ functions[Global][last.name].index = 0
        /\ last.kind = "native" => last.def = Global /\ last.frame = Null

\* a user function registered in a frame was called although the global
\* node registers a native of the same name
C8_Witness ==
    /\ last.op \in DispatchOps
    /\ last.kind = "call"
    /\ last.def # Global
    /\ Contains(functions[Global], last.name)
    /\ functions[Global][last.name].index = 0

\* C9: a call of a name that no node of the chain registers fails with the
\* EvaluationError for an undefined function, makes no frame and starts no
\* body.
C9_UndefinedFunction ==
    [][(last'.op \in DispatchOps /\ ~Registered(cur, last'.name)) =>
         /\ last'.kind = "EvaluationError: not defined"
         /\ last'.env = cur
         /\ last'.frame = Null
         /\ alloc' = alloc
         /\ stack' = <<>>
         /\ UNCHANGED <<parent, variables, functions>>
    ]_vars

\* an undefined function was called from a frame two levels below the root
C9_Witness ==
    /\ last.kind = "EvaluationError: not defined"
    /\ last.env \in Frames
    /\ parent[last.env] \in Frames

\* C10: every frame is released by the call that made it, however the call
\* ends: the allocated frames are those of the calls still in flight.
C10_FramesReleased == alloc = {Global} \cup Range(stack)

\* C11: the steps of a call (its start, its failure, its return) leave the
\* variables, functions and parent of the call site and of every other node
\* that was there before as they were; the frame a call starts with is a node
\* that was not allocated, has no function, and binds the parameters to
\* arguments of this call and nothing else.
C11_FrameIsolation ==
    [][(last'.op \in DispatchOps \cup {"return"}) =>
         /\ \A n \in alloc \ (IF last'.kind = "single" THEN {last'.frame}
                                                       ELSE {}) :
              /\ n \in alloc'
              /\ variables'[n] = variables[n]
              /\ functions'[n] = functions[n]
              /\ parent'[n] = parent[n]
         /\ last'.kind = "call" =>
              LET frame  == last'.frame
                  params == functions[last'.def][last'.name].params
              IN  /\ frame \notin alloc
                  /\ alloc' = alloc \cup {frame}
                  /\ functions'[frame] = EmptyMap
                  /\ DOMAIN variables'[frame] = Range(params)
                  /\ \A v \in DOMAIN variables'[frame] :
                       \E i \in 1..Len(params) :
                         params[i] = v /\ variables'[frame][v] = last'.args[i]
    ]_vars

\* a call has started from a node with bindings of its own that the frame
\* does not share
C11_Witness ==
    /\ last.kind = "call"
    /\ variables[last.env] # EmptyMap
    /\ variables[last.frame] # variables[last.env]
    /\ functions[last.env] # EmptyMap

\* C12: CreateFunction(name, params, body) on node E makes E's entry for name
\* a user function with these parameters and this body, whatever entry (user
\* or native) was there, and leaves E's other entries, every variable and the
\* functions of every other node as they were.
C12_CreateFunctionLocal ==
    [][last'.op = "CreateFunction" =>
         LET E == cur
             n == last'.name
         IN  /\ last'.env = E
             /\ DOMAIN functions'[E] = (DOMAIN functions[E]) \cup {n}
             /\ functions'[E][n].index = 1
             /\ functions'[E][n].params = last'.args
             /\ functions'[E][n].statements \in Statements
             /\ \A m \in (DOMAIN functions[E]) \ {n} :
                  functions'[E][m] = functions[E][m]
             /\ \A a \in Nodes \ {E} : functions'[a] = functions[a]
             /\ UNCHANGED <<variables, parent, alloc, stack>>
    ]_vars

\* a function was registered in a frame under a name that the frame's
\* ancestor registers differently, next to another entry of the frame
C12_Witness ==
    /\ last.op = "CreateFunction"
    /\ last.env \in Frames
    /\ \E a \in Ancestors(parent, last.env) :
         /\ Contains(functions[a], last.name)
         /\ functions[a][last.name] # functions[last.env][last.name]

Distinct(q) == \A i, j \in 1..Len(q) : q[i] = q[j] => i = j

\* C13: a call whose parameters are pairwise distinct binds, in its frame, the
\* i-th parameter to the i-th argument for every i and nothing else, and a
\* lookup of a parameter from the frame gives that argument whatever the call
\* site and its ancestors bind under the same name.
C13_ParametersBound ==
    (last.kind = "call"
       /\ Distinct(functions[last.def][last.name].params)) =>
        LET params == functions[last.def][last.name].params
            frame  == last.frame
        IN  /\ Len(last.args) = Len(params)
            /\ DOMAIN variables[frame] = Range(params)
            /\ \A i \in 1..Len(params) :
                 /\ variables[frame][params[i]] = last.args[i]
                 /\ FindVariableIn(variables, parent, frame, params[i])
                      = [kind |-> "value", val |-> last.args[i]]

\* a call with two distinct parameters and two different arguments, from a
\* call site that binds one of the parameter names to another value
C13_Witness ==
    /\ last.kind = "call"
    /\ Distinct(functions[last.def][last.name].params)
    /\ Len(last.args) = 2
    /\ last.args[1] # last.args[2]
    /\ \E i \in 1..2 :
         LET p == functions[last.def][last.name].params[i]
         IN  /\ Contains(variables[last.env], p)
             /\ variables[last.env][p] # last.args[i]

\* C14: the iterative and the recursive lookup are equivalent: on every
\* environment in use and for every name, FindVariable and RecFindVariable
\* have the same outcome (the same value, or UndeclaredVariableError for
\* both) and one terminates exactly when the other does.
C14_LookupPathsEquivalent ==
    Running =>
        \A node \in {Global} \cup Range(stack) : \A name \in VarNames :
            FindVariableIn(variables, parent, node, name)
                = RecFindVariableIn(variables, parent, node, name)

\* what a dispatch that resolved `name` to `r` must have left in `last`
SameOutcome(r) ==
    CASE r.kind = "native" ->
           last.kind = "native" /\ last.def = r.node
      [] r.kind = "undefined" ->
           last.kind = "EvaluationError: not defined"
      [] r.kind = "user" ->
           LET func == functions[r.node][last.name]
           IN  /\ last.def = r.node
               /\ parent[last.frame] = last.env
               /\ IF Len(func.params) = Len(last.args)
                  THEN /\ last.kind = "call"
                       /\ variables[last.frame]
                            = LoadVariables(EmptyMap, func.params, last.args, 1)
                  ELSE /\ last.kind = "EvaluationError: arguments"
                       /\ variables[last.frame] = EmptyMap
      [] OTHER -> FALSE

\* C15: the iterative and the recursive dispatch are equivalent: from every
\* environment in use and for every function name the two scans resolve the
\* same callable, and a call made through one path ends as the other path
\* would have ended it: the same native, the same "not defined" error, or the
\* same function with the same arity check, frame parent and bindings.
C15_DispatchPathsEquivalent ==
    /\ Running =>
         \A node \in {Global} \cup Range(stack) : \A name \in FuncNames :
             ExecuteFunctionLoop(functions, parent, node, node, name, {node})
                 = RecExecuteFunctionScan(functions, parent, node, name)
    /\ last.op = "ExecuteFunction" =>
         SameOutcome(RecExecuteFunctionScan(functions, parent,
                                            last.env, last.name))
    /\ last.op = "RecExecuteFunction" =>
         SameOutcome(ExecuteFunctionLoop(functions, parent, last.env,
                                         last.env, last.name, {last.env}))

\* a recursive dispatch made inside a frame that registers the name itself
\* while an ancestor registers it too
C15_Witness ==
    /\ last.op = "RecExecuteFunction"
    /\ last.kind = "call"
    /\ last.env \in Frames
    /\ last.def = last.env
    /\ Contains(functions[Global], last.name)

\* every allocated frame hangs under an allocated environment, and while no
\* call has failed the allocated environments are the global one and the
\* frames of the calls in flight, each hung under the one created before it
StackDiscipline ==
    /\ \A f \in alloc \cap Frames : parent[f] \in alloc
    /\ Range(stack) \subseteq alloc \cap Frames
    /\ Running =>
         /\ alloc = {Global} \cup Range(stack)
         /\ \A i \in 1..Len(stack) :
              parent[stack[i]] = IF i = 1 THEN Global ELSE stack[i - 1]
         /\ \A i, j \in 1..Len(stack) : stack[i] = stack[j] => i = j

\* a step that releases an environment releases exactly the frame created
\* last among those still allocated, which no allocated environment refers to
ReleasesNewest ==
    alloc' # alloc /\ alloc' \subseteq alloc =>
        /\ stack # <<>>
        /\ alloc \ alloc' = {stack[Len(stack)]}
        /\ stack' = SubSeq(stack, 1, Len(stack) - 1)
        /\ \A n \in alloc' : parent'[n] # stack[Len(stack)]

\* C16: call frames obey a strict stack discipline under nested successful
\* calls: the parent of every allocated frame is still allocated (the global
\* environment or the frame of a call in flight), frames are released in the
\* reverse order of their creation, and no released frame is the parent of,
\* or referenced by, an allocated environment.
C16_StackDiscipline == [][StackDiscipline' /\ ReleasesNewest]_vars

\* the inner of two nested calls has returned and its frame is released while
\* the outer call is still in flight
C16_Witness ==
    /\ last.op = "return"
    /\ last.kind = "single"
    /\ last.env \in Frames
    /\ stack = <<last.env>>
    /\ last.frame \notin alloc

\* C17: after ConstructGlobalTable and any sequence of operations, failing and
\* nested calls included, exactly one allocated environment has no parent: the
\* global one. Every frame has its parent set before it is bound or used, so
\* no frame is taken for the global environment.
C17_SingleRoot ==
    /\ {n \in alloc : parent[n] = Null} = {Global}
    /\ \A f \in alloc \cap Frames : ~IsGlobal(parent, f)

\* a failed nested call: two frames are allocated, one of them left behind by
\* the arity check
C17_Witness ==
    /\ last.kind = "EvaluationError: arguments"
    /\ last.env \in Frames
    /\ Cardinality(alloc \cap Frames) = 2

\* C18: native functions being registered in the global environment only, the
\* dispatcher never takes a native entry for a user function: the entry the
\* user-call branch extracts is a FunctionDef, and a native entry of the
\* global environment returns through the native branch.
C18_NativeNeverUserCall ==
    /\ \A f \in Frames : \A name \in DOMAIN functions[f] :
         functions[f][name].index = 1
    /\ last.kind # "bad_variant_access"
    /\ (last.op \in DispatchOps
          /\ last.kind \in {"call", "EvaluationError: arguments"}) =>
         functions[last.def][last.name].index = 1
    /\ (last.op \in DispatchOps /\ Registered(last.env, last.name)
          /\ functions[NearestFn(last.env, last.name)][last.name].index = 0) =>
         /\ last.kind = "native"
         /\ last.def = Global
         /\ last.frame = Null

\* a native of the global environment called from inside a frame
C18_Witness ==
    /\ last.op \in DispatchOps
    /\ last.kind = "native"
    /\ last.env \in Frames
    /\ functions[Global][last.name].index = 0

\* C19: when the parameter list of a user function names a parameter more
\* than once and the arity matches, the call is not rejected; the frame holds
\* one binding for that name, whose value is the argument at the name's last
\* position, so the frame has fewer bindings than the call has arguments.
C19_DuplicateParameters ==
    (last.op \in DispatchOps /\ ResolvesToUser(last.env, last.name)) =>
        LET params == functions[NearestFn(last.env, last.name)][last.name].params
            Last(v) == CHOOSE i \in 1..Len(params) :
                           /\ params[i] = v
                           /\ \A j \in 1..Len(params) : params[j] = v => j <= i
        IN  (~Distinct(params) /\ Len(last.args) = Len(params)) =>
                /\ last.kind = "call"
                /\ DOMAIN variables[last.frame] = Range(params)
                /\ \A v \in Range(params) :
                     variables[last.frame][v] = last.args[Last(v)]
                /\ Cardinality(DOMAIN variables[last.frame]) < Len(last.args)

\* a call of a function whose two parameters have one name, with two
\* different arguments
C19_Witness ==
    /\ last.kind = "call"
    /\ ~Distinct(functions[last.def][last.name].params)
    /\ last.args[1] # last.args[2]

====
